---- MODULE Spec2Model ----
(***************************************************************************)
(* A model of crossenv (src/crossenv/__init__.py): the construction of a   *)
(* CrossEnvBuilder (find_host_python, find_compiler_info, the clear        *)
(* flags), create() and the files it writes, and the execution of the      *)
(* generated cross-python delegation script by a POSIX shell.              *)
(*                                                                         *)
(* Strings that the code slices, trims or joins are sequences of           *)
(* one-character strings; a path list is a sequence of path names.         *)
(***************************************************************************)
EXTENDS Integers, Sequences, FiniteSets, TLC

\* ------------------------------------------------------------------ bounds

\* Most _sysconfigdata*.py files one glob may return.
MaxFiles == 2
\* Longest output of the compiler's -print-sysroot query, in characters.
MaxOut == 3

\* ------------------------------------------------------------------ state

VARIABLES
    bpc,        \* construction: position inside CrossEnvBuilder.__init__
    kw,         \* construction: the keyword arguments clear and cross_prefix
    inst,       \* construction: the host installation found on disk
    ccw,        \* construction: how the host compiler answers its two queries
    self,       \* construction: the attributes the builder has set so far
    err         \* construction: the exception that left __init__, if any

bvars == <<bpc, kw, inst, ccw, self, err>>

VARIABLES
    spc,        \* script: unwritten, written ("shell"), running, or delegated ("python")
    gen,        \* script: what make_cross_python generated the script from
    script,     \* script: the statements of the delegation script, in file order
    sh_env,     \* script: the shell's environment
    before,     \* script: the environment when the assignment section began
    results,    \* script: the environment handed to each delegated interpreter
    runs,       \* script: invocations of the script so far, each nested in the last
    inv,        \* script: $0 and the arguments of the current invocation, and _base
    ran,        \* script: the statements the shell has run in this invocation
    execd       \* script: the program and argv the interpreter was exec'd with

svars == <<spc, gen, script, sh_env, before, results, runs, inv, ran, execd>>

VARIABLES
    cpc,        \* create: position inside main() and create()
    cli,        \* create: how the builder is made (main() or a direct call) and
                \*   the clear and cross-prefix arguments given
    call,       \* create: the keyword arguments CrossEnvBuilder received
    bld,        \* create: the builder
    root,       \* create: the entries of ENV_DIR, each absent, a directory or a file
    lib_files,  \* create: the files in ENV_DIR/lib
    bin_files,  \* create: the files in ENV_DIR/bin other than activate
    files,      \* create: the four files create() publishes, at their final paths
    tmp,        \* create: the file utils.overwrite_file is staging, if any
    observed,   \* create: the files a concurrent reader has seen partially written
    pre,        \* create: the file system when the current create() began
    venvs,      \* create: the venv.EnvBuilder(...).create(dir) calls of this create()
    log,        \* create: the methods this create() has completed, in order
    creates     \* create: create() calls completed

cvars == <<cpc, cli, call, bld, root, lib_files, bin_files, files, tmp, observed, pre,
           venvs, log, creates>>

VARIABLES
    xpc,        \* cross: position inside make_cross_python
    xkw,        \* cross: the constructor's clear and cross_prefix
    xself,      \* cross: the builder
    xexe,       \* cross: context.python_exe, the running interpreter's file name
    xbin,       \* cross: the entries of the cross environment's bin, by name
    xbin0,      \* cross: the entries of that bin right after the environment was created
    cfg,        \* cross: the lines of the cross environment's pyvenv.cfg
    cfg0        \* cross: the lines of pyvenv.cfg before it was rewritten

xvars == <<xpc, xkw, xself, xexe, xbin, xbin0, cfg, cfg0>>

vars == <<bvars, svars, cvars, xvars>>

\* What the steps of a construction, of the script and of create() leave alone.
not_construction == <<svars, cvars, xvars>>
not_script == <<bvars, cvars, xvars>>
not_create == <<bvars, svars, xvars>>
not_cross == <<bvars, svars, cvars>>

\* ------------------------------------------------------------ version names

\* sysconfig.get_config_var('VERSION') of the running (build) interpreter.
build_version == <<"3", ".", "9">>
\* A VERSION a host _sysconfigdata may record instead.
other_version == <<"3", ".", "1", "0">>
\* Another lib/python* directory of the host prefix, and a plat-* subdirectory.
OtherLibDir == <<"p", "y", "t", "h", "o", "n", "3", ".", "8">>
PlatDir == <<"p", "l", "a", "t", "-", "a", "r", "m">>
\* sys.platform of the build machine, and a cross _PYTHON_HOST_PLATFORM value,
\* as the parts str.split('-') gives.
sys_platform == <<"linux">>
cross_platform == <<"linux", "arm">>

NoErr == [kind |-> "none", host |-> <<>>, build |-> <<>>]
Raise(k) == [kind |-> k, host |-> <<>>, build |-> <<>>]
RaiseVersionMismatch(h, b) == [kind |-> "VersionMismatch", host |-> h, build |-> b]

\* ------------------------------------------------------------------ helpers

\* s[n:] of a Python string.
Drop(s, n) == SubSeq(s, n + 1, Len(s))
\* os.path.dirname of a path given as its components.
dirname(p) == SubSeq(p, 1, Len(p) - 1)
\* Python's None and a present value.
None == [some |-> FALSE, val |-> <<>>]
Some(v) == [some |-> TRUE, val |-> v]
\* Python's truth value of an optional string: None and '' are false.
Truthy(o) == o.some /\ o.val # <<>>

\* ------------------------------------------------- the host installation

\* The path main() or the caller hands to the builder.
host_path == <<"opt", "host", "bin", "python3.9">>

\* What find_host_python can observe of a host installation.
\*   path        os.path.exists / os.path.isfile of the given path
\*   source_dir  sysconfig._is_python_source_dir(host_project_base)
\*   pybuilddir  pybuilddir.txt can be read (source checkout)
\*   n_build     _sysconfigdata*.py files in the build directory (source checkout)
\*   n_lib       _sysconfigdata*.py files in prefix/lib/pythonX.Y
\*   n_sub       _sysconfigdata*.py files in prefix/lib/pythonX.Y/*
\*   any1, any2  a _sysconfigdata*.py in another prefix/lib/python* directory,
\*               directly or one directory below
\*   makefile    the build Makefile exists
\*   platform    the Makefile has a _PYTHON_HOST_PLATFORM= line
\*   cc, has_version, version   the build_time_vars of the one file loaded
SourceInstallations ==
    [path : {"file"}, source_dir : {TRUE}, pybuilddir : BOOLEAN,
     n_build : 0..MaxFiles, n_lib : {0}, n_sub : {0}, any1 : {FALSE}, any2 : {FALSE},
     makefile : BOOLEAN, platform : BOOLEAN, cc : BOOLEAN, has_version : BOOLEAN,
     version : {build_version, other_version}]

InstalledInstallations ==
    [path : {"file"}, source_dir : {FALSE}, pybuilddir : {FALSE},
     n_build : {0}, n_lib : 0..MaxFiles, n_sub : 0..MaxFiles, any1 : BOOLEAN, any2 : BOOLEAN,
     makefile : BOOLEAN, platform : BOOLEAN, cc : BOOLEAN, has_version : BOOLEAN,
     version : {build_version, other_version}]

BadPaths ==
    [path : {"missing", "dir"}, source_dir : {FALSE}, pybuilddir : {FALSE},
     n_build : {0}, n_lib : {0}, n_sub : {0}, any1 : {FALSE}, any2 : {FALSE},
     makefile : {FALSE}, platform : {FALSE}, cc : {FALSE}, has_version : {FALSE},
     version : {build_version}]

\* A build directory with nothing to say is not told apart by its version.
Installations ==
    {h \in SourceInstallations \cup InstalledInstallations \cup BadPaths :
        ~h.has_version => h.version = build_version}

NoInst == CHOOSE h \in BadPaths : h.path = "missing"

\* The builder's attributes before __init__ has set any.
NoSelf ==
    [host_project_base |-> <<>>, host_home |-> <<>>, host_cc |-> FALSE,
     host_version |-> <<>>, host_platform |-> <<>>, host_sysroot |-> None,
     clear_build |-> FALSE, clear_cross |-> FALSE, cross_prefix |-> None]

\* ------------------------------------------------------ find_host_python

\* The list `sysconfigdata` the branch taken has globbed (its length): the build
\* directory of a source checkout; of an installed tree lib/pythonX.Y and, only
\* when that holds none, its subdirectories.
sysconfigdata(h) ==
    IF h.source_dir THEN h.n_build
    ELSE IF h.n_lib # 0 THEN h.n_lib ELSE h.n_sub

\* Lines 147-160: nothing under lib/pythonX.Y; `found` lists what other
\* lib/python* directories hold, glob1's matches before glob2's, and the host
\* version reported is the name of the directory of found[0] from its 7th character.
found(h) ==
    (IF h.any1 THEN <<OtherLibDir>> ELSE <<>>) \o (IF h.any2 THEN <<PlatDir>> ELSE <<>>)

\* load_and_check without the sanity check of lines 202-204.
load_and_check_unchecked_version(h) ==
    IF sysconfigdata(h) = 0 THEN [err |-> Raise("ConfigDataNotFound"), attrs |-> NoSelf]
    ELSE IF sysconfigdata(h) > 1
        THEN [err |-> Raise("AmbiguousInstallation"), attrs |-> NoSelf]
    ELSE IF ~h.cc \/ ~h.has_version THEN [err |-> Raise("KeyError"), attrs |-> NoSelf]
    ELSE IF ~h.makefile THEN [err |-> Raise("MalformedInstallation"), attrs |-> NoSelf]
    ELSE [err |-> NoErr,
          attrs |-> [NoSelf EXCEPT
              !.host_project_base = dirname(host_path),
              !.host_cc = TRUE,
              !.host_version = h.version,
              !.host_platform = IF h.platform THEN cross_platform ELSE sys_platform]]

\* load_and_check taking sysconfigdata[0] however many files the glob returned.
load_and_check_first_match(h) ==
    IF sysconfigdata(h) = 0 THEN [err |-> Raise("ConfigDataNotFound"), attrs |-> NoSelf]
    ELSE IF ~h.cc \/ ~h.has_version THEN [err |-> Raise("KeyError"), attrs |-> NoSelf]
    ELSE IF ~h.makefile THEN [err |-> Raise("MalformedInstallation"), attrs |-> NoSelf]
    ELSE IF h.version # build_version
        THEN [err |-> RaiseVersionMismatch(h.version, build_version), attrs |-> NoSelf]
    ELSE [err |-> NoErr,
          attrs |-> [NoSelf EXCEPT
              !.host_project_base = dirname(host_path),
              !.host_cc = TRUE,
              !.host_version = h.version,
              !.host_platform = IF h.platform THEN cross_platform ELSE sys_platform]]

\* Lines 169-204: the candidate count, the load, the makefile and the version.
\* host_cc and host_version are set as soon as the file is loaded (lines 186-187).
load_and_check(h) ==
    LET loaded == [NoSelf EXCEPT
                      !.host_project_base = dirname(host_path),
                      !.host_home = IF h.source_dir THEN dirname(host_path)
                                    ELSE dirname(dirname(host_path)),
                      !.host_cc = TRUE,
                      !.host_version = h.version]
    IN  IF sysconfigdata(h) = 0
            THEN [err |-> Raise("ConfigDataNotFound"), attrs |-> NoSelf]
        ELSE IF sysconfigdata(h) > 1
            THEN [err |-> Raise("AmbiguousInstallation"), attrs |-> NoSelf]
        ELSE IF ~h.cc THEN [err |-> Raise("KeyError"), attrs |-> NoSelf]
        ELSE IF ~h.has_version
            THEN [err |-> Raise("KeyError"), attrs |-> [NoSelf EXCEPT !.host_cc = TRUE]]
        ELSE IF ~h.makefile THEN [err |-> Raise("MalformedInstallation"), attrs |-> loaded]
        ELSE IF h.version # build_version
            THEN [err |-> RaiseVersionMismatch(h.version, build_version), attrs |-> loaded]
        ELSE [err |-> NoErr,
              attrs |-> [loaded EXCEPT
                  !.host_platform = IF h.platform THEN cross_platform ELSE sys_platform]]

find_host_python(h) ==
    IF h.path = "missing" THEN [err |-> Raise("NotFound"), attrs |-> NoSelf]
    ELSE IF h.path = "dir" THEN [err |-> Raise("InvalidTarget"), attrs |-> NoSelf]
    ELSE IF h.source_dir /\ ~h.pybuilddir
        \* the handler's message names an undefined `s`
        THEN [err |-> Raise("NameError"), attrs |-> NoSelf]
    ELSE IF ~h.source_dir /\ h.n_lib = 0 /\ h.n_sub = 0 /\ found(h) # <<>>
        THEN [err |-> RaiseVersionMismatch(Drop(found(h)[1], 6), build_version),
              attrs |-> NoSelf]
    ELSE load_and_check(h)

\* ---------------------------------------------------- find_compiler_info

\* Characters of a compiler's output; str.strip() removes the last two.
OutChars == {"r", " ", "\n"}
Whitespace == {" ", "\n"}

RECURSIVE SeqsUpTo(_, _)
\* All sequences over S of length at most n.
SeqsUpTo(S, n) ==
    IF n = 0 THEN {<<>>}
    ELSE LET shorter == SeqsUpTo(S, n - 1)
         IN shorter \cup {Append(q, x) : q \in {r \in shorter : Len(r) = n - 1}, x \in S}

\* How the host compiler behaves: each query runs ("ok"), exits nonzero
\* ("nonzero", CalledProcessError) or cannot be spawned ("nospawn", OSError).
Compilers ==
    [version_query : {"ok", "nonzero", "nospawn"},
     sysroot_query : {"ok", "nonzero", "nospawn"},
     sysroot_out : SeqsUpTo(OutChars, MaxOut)]

NoCompiler == [version_query |-> "ok", sysroot_query |-> "ok", sysroot_out |-> <<>>]

RECURSIVE lstrip(_)
lstrip(s) == IF s # <<>> /\ Head(s) \in Whitespace THEN lstrip(Tail(s)) ELSE s
RECURSIVE rstrip(_)
rstrip(s) ==
    IF s # <<>> /\ s[Len(s)] \in Whitespace THEN rstrip(SubSeq(s, 1, Len(s) - 1)) ELSE s
\* str.strip()
strip(s) == rstrip(lstrip(s))

\* run_compiler (lines 212-217). check_output returns the output or raises; an
\* exception reaching `except CalledProcessError:` makes Python evaluate that
\* name, which this module never imports, so a NameError leaves the function
\* whatever was raised.  exc: the exception leaving run_compiler; ret: its value.
run_compiler(query, out) ==
    IF query = "ok" THEN [exc |-> "none", ret |-> Some(out)]
    ELSE [exc |-> "NameError", ret |-> None]

\* find_compiler_info (lines 206-228): the error it raises and host_sysroot.
find_compiler_info(c) ==
    LET v == run_compiler(c.version_query, <<"r">>)
        r == run_compiler(c.sysroot_query, c.sysroot_out)
    IN  IF v.exc # "none" THEN [err |-> Raise(v.exc), host_sysroot |-> None]
        ELSE IF ~v.ret.some THEN [err |-> Raise("CompilerUnavailable"), host_sysroot |-> None]
        ELSE IF r.exc # "none" THEN [err |-> Raise(r.exc), host_sysroot |-> None]
        \* None has no strip()
        ELSE IF ~r.ret.some THEN [err |-> Raise("AttributeError"), host_sysroot |-> None]
        ELSE [err |-> NoErr, host_sysroot |-> Some(strip(r.ret.val))]

\* ------------------------------------------------------ the clear flags

\* The values of the clear argument: a false value, or one of four names.
ClearValues == {"none", "default", "cross", "build", "both"}
\* The cross_prefix argument: None, '' or a directory.
sysroot_prefix == <<"srv", "sysroot">>
CrossPrefixes == {None, Some(<<>>), Some(sysroot_prefix)}
KwArgs == [clear : ClearValues, cross_prefix : CrossPrefixes]
NoKw == [clear |-> "none", cross_prefix |-> None]

\* The flags with clear_cross taken as line 331 computes its unused local:
\* self.clear is the False handed to venv.EnvBuilder, in no tuple of names.
init_flags_local_clear(attrs, k) ==
    [attrs EXCEPT
        !.clear_build = k.clear \in {"default", "build", "both"},
        !.cross_prefix = IF Truthy(k.cross_prefix) THEN k.cross_prefix ELSE None,
        !.clear_cross = FALSE]

\* Lines 86-94 of __init__ (os.path.abspath of an absolute path is that path).
init_flags(attrs, k) ==
    [attrs EXCEPT
        !.clear_build = k.clear \in {"default", "build", "both"},
        !.cross_prefix = IF Truthy(k.cross_prefix) THEN k.cross_prefix ELSE None,
        !.clear_cross = IF Truthy(k.cross_prefix) THEN k.clear \in {"cross", "both"}
                        ELSE k.clear \in {"default", "cross", "both"}]

\* CrossEnvBuilder(host_python=..., clear=..., cross_prefix=...) as a whole
\* (lines 74-101): the exception that leaves it, or the builder.
CrossEnvBuilder(h, c, k) ==
    LET host == find_host_python(h)
        comp == find_compiler_info(c)
    IN  IF host.err # NoErr THEN [err |-> host.err, self |-> NoSelf]
        ELSE IF comp.err # NoErr THEN [err |-> comp.err, self |-> NoSelf]
        ELSE [err |-> NoErr,
              self |-> init_flags([host.attrs EXCEPT !.host_sysroot = comp.host_sysroot], k)]

\* ------------------------------------------- construction, step by step

BStart ==
    /\ bpc = "find_host_python"
    /\ kw \in KwArgs
    /\ inst = NoInst
    /\ ccw = NoCompiler
    /\ self = NoSelf
    /\ err = NoErr

\* self.find_host_python(host_python), line 82
FindHostPython ==
    /\ bpc = "find_host_python"
    /\ \E h \in Installations :
        /\ inst' = h
        /\ err' = find_host_python(h).err
        /\ self' = find_host_python(h).attrs
        /\ bpc' = IF find_host_python(h).err = NoErr THEN "find_compiler_info"
                  ELSE "raised in find_host_python"
    /\ UNCHANGED <<kw, ccw>>
    /\ UNCHANGED not_construction

\* self.find_compiler_info(), line 83
FindCompilerInfo ==
    /\ bpc = "find_compiler_info"
    /\ \E c \in Compilers :
        /\ ccw' = c
        /\ err' = find_compiler_info(c).err
        /\ self' = [self EXCEPT !.host_sysroot = find_compiler_info(c).host_sysroot]
        /\ bpc' = IF find_compiler_info(c).err = NoErr THEN "flags"
                  ELSE "raised in find_compiler_info"
    /\ UNCHANGED <<kw, inst>>
    /\ UNCHANGED not_construction

\* the rest of __init__, lines 84-101
InitFlags ==
    /\ bpc = "flags"
    /\ self' = init_flags(self, kw)
    /\ bpc' = "constructed"
    /\ UNCHANGED <<kw, inst, ccw, err>>
    /\ UNCHANGED not_construction

BNext == FindHostPython \/ FindCompilerInfo \/ InitFlags

\* No construction is modelled.
BIdle ==
    /\ bpc = "idle"
    /\ kw = NoKw
    /\ inst = NoInst
    /\ ccw = NoCompiler
    /\ self = NoSelf
    /\ err = NoErr


\* ------------------------------------------------- the delegation script
\* A text is a sequence of tokens: path components, and the characters " " and
\* ":" where the shell or the code gives them a meaning.

\* The shell variables the model follows.
VarNames ==
    {"PYTHON_CROSSENV", "_PYTHON_PROJECT_BASE", "_PYTHON_HOST_PLATFORM",
     "_PYTHON_SYSCONFIGDATA_NAME", "PYTHONHOME", "PYTHONPATH", "LIBRARY_PATH", "CPATH",
     "FOO", "BAR"}
\* The names a caller's assignments use.
ExtraNames == {"FOO", "BAR"}
\* The values a caller's assignments use: empty, a word, two words.
ExtraValues == {<<>>, <<"a">>, <<"a", " ", "b">>}
\* Most entries of extra_env_vars.
MaxVars == 2
\* Most invocations of the script nested in one another.
MaxRuns == 2

EnvVarAssignments == [name : ExtraNames, assign : {"=", "?="}, val : ExtraValues]

\* context.lib_path, the build interpreter's stdlib, context.build_env_exe and
\* context.cross_bin_path for an environment at /env.
lib_path == <<"env", "lib">>
stdlib == <<"usr", "lib", "python3.9">>
build_env_exe == <<"env", "build", "bin", "python3">>
cross_bin_path == <<"env", "cross", "bin">>
sysconfig_name == <<"_sysconfigdata_arm">>

\* What make_cross_python finds under the sysroot: glob(sysroot/usr/lib*) and
\* os.path.isdir(sysroot/usr/include).
SysrootDirs == [libs : {<<>>, <<"lib">>, <<"lib", "lib64">>}, inc : BOOLEAN]

RECURSIVE pathsep_join(_)
\* os.pathsep.join(libs)
pathsep_join(l) ==
    IF l = <<>> THEN <<>>
    ELSE IF Len(l) = 1 THEN <<l[1]>>
    ELSE <<l[1], ":">> \o pathsep_join(Tail(l))

\* One statement of the script.  sec: the step of the script it belongs to;
\* op: "quoted" is export NAME="text"; "prepend" is
\* export NAME="text${NAME:+:$NAME}"; "raw" is export NAME=text; "guarded" is
\* [ -z "${NAME}" ] && export NAME=text; "base" and "exec" are the first and the
\* last statement.
Stmt(sec, op, name, text) == [sec |-> sec, op |-> op, name |-> name, text |-> text]

\* Lines 376-385: the fixed head of the script.
script_head(slf) ==
    << Stmt("head", "base", "_base", <<>>),
       Stmt("identity", "quoted", "PYTHON_CROSSENV", <<"1">>),
       Stmt("identity", "quoted", "_PYTHON_PROJECT_BASE", slf.host_project_base),
       Stmt("identity", "quoted", "_PYTHON_HOST_PLATFORM", slf.host_platform),
       Stmt("identity", "quoted", "_PYTHON_SYSCONFIGDATA_NAME", sysconfig_name),
       Stmt("identity", "quoted", "PYTHONHOME", slf.host_home),
       Stmt("path", "prepend", "PYTHONPATH", lib_path \o <<":">> \o stdlib) >>

\* Lines 390-403: the sysroot's library and header directories.
script_sysroot(slf, d) ==
    IF ~Truthy(slf.host_sysroot) THEN <<>>
    ELSE (IF d.libs = <<>> THEN <<>>
          ELSE <<Stmt("sysroot", "raw", "LIBRARY_PATH", pathsep_join(d.libs))>>)
         \o (IF ~d.inc THEN <<>>
             ELSE <<Stmt("sysroot", "raw", "CPATH",
                         slf.host_sysroot.val \o <<"usr", "include">>)>>)

RECURSIVE script_extra(_)
\* Lines 405-412: one statement per entry of extra_env_vars, in its order.
script_extra(xv) ==
    IF xv = <<>> THEN <<>>
    ELSE <<Stmt("extra", IF Head(xv).assign = "=" THEN "raw" ELSE "guarded",
                Head(xv).name, Head(xv).val)>> \o script_extra(Tail(xv))

\* Lines 417-423: exec of build-python, which is to execv itself with the
\* script's words after -c as its argv: "<cross_bin_path>/$_base" and "$@".
script_tail ==
    <<Stmt("exec", "exec", "_base", [exe |-> build_env_exe, dir |-> cross_bin_path])>>

\* The file with the caller's assignments written before the sysroot's
\* directories and the search path after both.
make_script_assignments_first(slf, d, xv) ==
    SubSeq(script_head(slf), 1, 6) \o script_extra(xv) \o script_sysroot(slf, d)
        \o SubSeq(script_head(slf), 7, 7) \o script_tail

\* The whole file written at lines 375-423.
make_script(slf, d, xv) ==
    script_head(slf) \o script_sysroot(slf, d) \o script_extra(xv) \o script_tail

\* --------------------------------------------------------- the shell

Unset == [some |-> FALSE, val |-> <<>>]
\* [ -z "${NAME}" ] and ${NAME:+...}: unset or empty.
IsEmpty(e, name) == ~e[name].some \/ e[name].val = <<>>

RECURSIVE shell_word(_)
\* The first word of unquoted text: the shell splits it at blanks.
shell_word(text) ==
    IF text = <<>> \/ Head(text) = " " THEN <<>>
    ELSE <<Head(text)>> \o shell_word(Tail(text))

\* The environment after the shell ran one statement.
exec_stmt(e, st) ==
    IF st.op = "quoted" THEN [e EXCEPT ![st.name] = Some(st.text)]
    ELSE IF st.op = "prepend"
        THEN [e EXCEPT ![st.name] =
                 Some(st.text \o (IF IsEmpty(e, st.name) THEN <<>>
                                  ELSE <<":">> \o e[st.name].val))]
    ELSE IF st.op = "raw" THEN [e EXCEPT ![st.name] = Some(shell_word(st.text))]
    ELSE IF st.op = "guarded"
        THEN IF IsEmpty(e, st.name)
             THEN [e EXCEPT ![st.name] = Some(shell_word(st.text))]
             ELSE e
    ELSE e

RECURSIVE exec_all(_, _)
\* The environment after the shell ran the statements in order.
exec_all(e, stmts) ==
    IF stmts = <<>> THEN e ELSE exec_all(exec_stmt(e, Head(stmts)), Tail(stmts))

RECURSIVE section(_, _)
\* The statements of one step of the script, in file order.
section(stmts, sec) ==
    IF stmts = <<>> THEN <<>>
    ELSE (IF Head(stmts).sec = sec THEN <<Head(stmts)>> ELSE <<>>)
         \o section(Tail(stmts), sec)

\* The builders make_cross_python may write the script for: an installed host
\* found intact, a compiler whose sysroot query prints nothing or a path.
GoodInstallation ==
    [path |-> "file", source_dir |-> FALSE, pybuilddir |-> FALSE, n_build |-> 0,
     n_lib |-> 1, n_sub |-> 0, any1 |-> FALSE, any2 |-> FALSE, makefile |-> TRUE,
     platform |-> TRUE, cc |-> TRUE, has_version |-> TRUE, version |-> build_version]
GoodCompilers ==
    {[version_query |-> "ok", sysroot_query |-> "ok", sysroot_out |-> o] :
        o \in {<<"\n">>, <<"r", "\n">>}}

\* The invoking shell's environment: the caller's variables and the module
\* search path unset, empty or set.
InitialEnvs ==
    {[n \in VarNames |-> IF n = "FOO" THEN foo ELSE IF n = "PYTHONPATH" THEN pp ELSE Unset] :
        foo \in {Unset, Some(<<>>), Some(<<"z">>)},
        pp \in {Unset, Some(<<>>), Some(<<"site">>)}}

NoGen == [self |-> NoSelf, dirs |-> [libs |-> <<>>, inc |-> FALSE], xvars |-> <<>>]
NoEnv == [n \in VarNames |-> Unset]

\* How the script is started: $0 as path components, the arguments as words
\* (a word may hold a blank).
Invocations ==
    {[zero |-> cross_bin_path \o <<"python3">>, args |-> <<>>],
     [zero |-> <<"python">>, args |-> <<<<"-", "c">>, <<"a", " ", "b">>>>]}
NoInv == [zero |-> <<>>, args |-> <<>>, base |-> <<>>]
NoExec == [exe |-> <<>>, argv |-> <<>>]

\* ${0##*/}: $0 without its longest prefix ending in '/'.
basename(zero) == IF zero = <<>> THEN <<>> ELSE <<zero[Len(zero)]>>

\* sys.argv of `python -c CODE word...`: '-c', then the words.
sys_argv(words) == <<<<"-", "c">>>> \o words

RECURSIVE run_of(_, _)
\* The statements of one step that come next in the file.
run_of(stmts, sec) ==
    IF stmts = <<>> \/ Head(stmts).sec # sec THEN <<>>
    ELSE <<Head(stmts)>> \o run_of(Tail(stmts), sec)

\* The part of the file the shell has not run yet.
Rest == SubSeq(script, Len(ran) + 1, Len(script))
\* The shell is at a statement of this step.
At(sec) == spc = "running" /\ Rest # <<>> /\ Head(Rest).sec = sec

SStart ==
    /\ spc = "unwritten"
    /\ gen = NoGen
    /\ script = <<>>
    /\ sh_env \in InitialEnvs
    /\ before = NoEnv
    /\ results = <<>>
    /\ runs = 0
    /\ inv = NoInv
    /\ ran = <<>>
    /\ execd = NoExec

\* make_cross_python writes the script (lines 375-424).
WriteScript ==
    /\ spc = "unwritten"
    /\ \E c \in GoodCompilers, d \in SysrootDirs, xv \in SeqsUpTo(EnvVarAssignments, MaxVars) :
        LET slf == CrossEnvBuilder(GoodInstallation, c, NoKw).self
        IN  /\ Truthy(slf.host_sysroot) \/ d = [libs |-> <<>>, inc |-> FALSE]
            /\ gen' = [self |-> slf, dirs |-> d, xvars |-> xv]
            /\ script' = make_script(slf, d, xv)
    /\ spc' = "shell"
    /\ UNCHANGED <<sh_env, before, results, runs, inv, ran, execd>>
    /\ UNCHANGED not_script

\* The script is started: by a user's shell, or by the interpreter an earlier
\* invocation delegated to (cross-python launching cross-python), which inherits
\* the exported environment.  The shell runs the file from its first statement.
Invoke ==
    /\ spc \in {"shell", "python"}
    /\ runs < MaxRuns
    /\ runs' = runs + 1
    /\ \E i \in Invocations : inv' = [zero |-> i.zero, args |-> i.args, base |-> <<>>]
    /\ ran' = <<>>
    /\ execd' = NoExec
    /\ spc' = "running"
    /\ UNCHANGED <<gen, script, sh_env, before, results>>
    /\ UNCHANGED not_script

\* Line 378: _base=${0##*/}.
SetBase ==
    /\ At("head")
    /\ inv' = [inv EXCEPT !.base = basename(inv.zero)]
    /\ ran' = ran \o run_of(Rest, "head")
    /\ UNCHANGED <<spc, gen, script, sh_env, before, results, runs, execd>>
    /\ UNCHANGED not_script

\* Steps 1 and 2: the cross-mode marker and the host identity (and PYTHONHOME).
ExportIdentity ==
    /\ At("identity")
    /\ sh_env' = exec_all(sh_env, run_of(Rest, "identity"))
    /\ ran' = ran \o run_of(Rest, "identity")
    /\ UNCHANGED <<spc, gen, script, before, results, runs, inv, execd>>
    /\ UNCHANGED not_script

\* Step 3: the module search path.
ExportSearchPath ==
    /\ At("path")
    /\ sh_env' = exec_all(sh_env, run_of(Rest, "path"))
    /\ ran' = ran \o run_of(Rest, "path")
    /\ UNCHANGED <<spc, gen, script, before, results, runs, inv, execd>>
    /\ UNCHANGED not_script

\* Step 4: the sysroot's directories, when the script has them.
ExportSysroot ==
    /\ At("sysroot")
    /\ sh_env' = exec_all(sh_env, run_of(Rest, "sysroot"))
    /\ ran' = ran \o run_of(Rest, "sysroot")
    /\ UNCHANGED <<spc, gen, script, before, results, runs, inv, execd>>
    /\ UNCHANGED not_script

\* Step 5: the caller's assignments.
ExportExtraVars ==
    /\ At("extra")
    /\ before' = sh_env
    /\ sh_env' = exec_all(sh_env, run_of(Rest, "extra"))
    /\ ran' = ran \o run_of(Rest, "extra")
    /\ UNCHANGED <<spc, gen, script, results, runs, inv, execd>>
    /\ UNCHANGED not_script

\* Step 6: exec of the build interpreter with the environment exported so far;
\* its -c code execs it again with sys.argv[1:] as argv.
Delegate ==
    /\ At("exec")
    /\ LET st == Head(Rest)
           words == <<st.text.dir \o inv.base>> \o inv.args
       IN  execd' = [exe |-> st.text.exe, argv |-> Tail(sys_argv(words))]
    /\ results' = Append(results, sh_env)
    /\ ran' = Append(ran, Head(Rest))
    /\ spc' = "python"
    /\ UNCHANGED <<gen, script, sh_env, before, runs, inv>>
    /\ UNCHANGED not_script

SNext ==
    \/ WriteScript
    \/ Invoke
    \/ SetBase
    \/ ExportIdentity
    \/ ExportSearchPath
    \/ ExportSysroot
    \/ ExportExtraVars
    \/ Delegate

\* No script is modelled.
SIdle ==
    /\ spc = "idle"
    /\ gen = NoGen
    /\ script = <<>>
    /\ sh_env = NoEnv
    /\ before = NoEnv
    /\ results = <<>>
    /\ runs = 0
    /\ inv = NoInv
    /\ ran = <<>>
    /\ execd = NoExec

\* ---------------------------------------------------------------- create()

\* The ENV_DIR given to create().
env_dir == <<"env">>
\* The entries of ENV_DIR the model follows: the four of the layout (lines
\* 252-258) and a file that is none of them.
RootNames == {"cross", "build", "lib", "bin", "junk"}
\* The files create() publishes: ENV_DIR/crossenv.cfg, the cross environment's
\* pyvenv.cfg and delegation script, ENV_DIR/bin/activate.
FileNames == {"crossenv.cfg", "pyvenv.cfg", "cross-python", "activate"}
\* Most create() calls on one builder.
MaxCreates == 2

\* How a builder comes to be: through main(), with the --clear* and
\* --cross-prefix options parsed, or through a direct CrossEnvBuilder(...) call.
Clis == [via : {"main", "api"}, clear : ClearValues, cross_prefix : CrossPrefixes]
NoCli == [via |-> "api", clear |-> "none", cross_prefix |-> None]

\* The keyword arguments the constructor receives.  main() (lines 571-577)
\* passes clear=args.clear and no cross_prefix.
kwargs_of(c) ==
    IF c.via = "main" THEN [clear |-> c.clear, cross_prefix |-> None]
    ELSE [clear |-> c.clear, cross_prefix |-> c.cross_prefix]

\* Lines 327-330: where the cross environment goes.
cross_env_dir(slf) ==
    IF Truthy(slf.cross_prefix) THEN slf.cross_prefix.val ELSE env_dir \o <<"cross">>

\* The hosts create() is modelled for: found intact, the Makefile naming a
\* host platform or not.
HostsForCreate == {GoodInstallation, [GoodInstallation EXCEPT !.platform = FALSE]}
CompilerForCreate ==
    [version_query |-> "ok", sysroot_query |-> "ok", sysroot_out |-> <<"r", "\n">>]

NoFiles == [f \in FileNames |-> "absent"]
NoRoot == [n \in RootNames |-> "absent"]
NoPre == [root |-> NoRoot, lib_files |-> {}, bin_files |-> {}, files |-> NoFiles]

\* The removal loop with its test inverted: cross and build go, the rest stays.
remove_named(r) ==
    [n \in RootNames |-> IF n \in {"cross", "build"} THEN "absent" ELSE r[n]]

\* utils.remove_path on the entries of ENV_DIR other than cross and build
\* (lines 261-265).
remove_others(r) ==
    [n \in RootNames |-> IF n \in {"cross", "build"} THEN r[n] ELSE "absent"]

\* utils.overwrite_file leaving its context: the temporary replaces the file.
overwrite_file(fs, f) == [fs EXCEPT ![f] = "whole"]
\* open(path, 'w'): the file is created or truncated at its final path.
open_w(fs, f) == [fs EXCEPT ![f] = "partial"]
\* The with-block of an open(path, 'w') ends: everything is written.
close_w(fs, f) == [fs EXCEPT ![f] = "whole"]

\* What follows a step in a sequence of create()'s steps; create() returns
\* after the last.
following(order, step) ==
    LET i == CHOOSE k \in 1..Len(order) : order[k] = step
    IN  IF i = Len(order) THEN "ready" ELSE order[i + 1]

\* create() with the configuration written after both environments.
after_environments(step) ==
    following(<<"ensure_directories", "make_build_python", "make_cross_python",
                "create_configuration", "post_setup">>, step)

\* Lines 238-242: the calls of create(), in order.
create_order ==
    <<"ensure_directories", "create_configuration", "make_build_python",
      "make_cross_python", "post_setup">>
\* The call of create() that follows a call.
after(step) == following(create_order, step)

\* A file system create() may start from: nothing, or what earlier runs and
\* others left.  The cross environment's two files exist together, in the
\* directory the builder will use; a caller's cross prefix is an existing
\* directory.
CStart ==
    /\ cpc = "start"
    /\ cli \in Clis
    /\ call = NoKw
    /\ bld = NoSelf
    /\ root \in [RootNames -> {"absent", "dir", "file"}]
    /\ root["cross"] # "file" /\ root["build"] # "file" /\ root["lib"] # "file"
    /\ root["junk"] # "dir"
    /\ lib_files \in SUBSET {"old.py"}
    /\ root["lib"] # "dir" => lib_files = {}
    /\ bin_files \in SUBSET {"old-tool"}
    /\ root["bin"] # "dir" => bin_files = {}
    /\ files \in [FileNames -> {"absent", "whole"}]
    /\ files["activate"] = "whole" <=> bin_files # {}
    /\ files["pyvenv.cfg"] = files["cross-python"]
    /\ (files["pyvenv.cfg"] = "whole"
        /\ cross_env_dir(init_flags(NoSelf, kwargs_of(cli))) = env_dir \o <<"cross">>)
           => root["cross"] = "dir"
    /\ tmp = "none"
    /\ observed = {}
    /\ pre = NoPre
    /\ venvs = <<>>
    /\ log = <<>>
    /\ creates = 0

\* main(), lines 565-577: the builder is made from the parsed arguments.
MainDriver ==
    /\ cpc = "start"
    /\ cli.via = "main"
    /\ \E h \in HostsForCreate :
        LET made == CrossEnvBuilder(h, CompilerForCreate, kwargs_of(cli))
        IN  /\ call' = kwargs_of(cli)
            /\ bld' = made.self
            /\ cpc' = IF made.err = NoErr THEN "ready" ELSE "raised in __init__"
    /\ UNCHANGED <<cli, root, lib_files, bin_files, files, tmp, observed, pre, venvs, log,
                   creates>>
    /\ UNCHANGED not_create

\* A direct CrossEnvBuilder(host_python=..., clear=..., cross_prefix=...).
ApiConstruct ==
    /\ cpc = "start"
    /\ cli.via = "api"
    /\ \E h \in HostsForCreate :
        LET made == CrossEnvBuilder(h, CompilerForCreate, kwargs_of(cli))
        IN  /\ call' = kwargs_of(cli)
            /\ bld' = made.self
            /\ cpc' = IF made.err = NoErr THEN "ready" ELSE "raised in __init__"
    /\ UNCHANGED <<cli, root, lib_files, bin_files, files, tmp, observed, pre, venvs, log,
                   creates>>
    /\ UNCHANGED not_create

\* create() is called and runs ensure_directories (lines 237-238, 244-270).
\* With a clear flag set every entry of ENV_DIR but cross and build is removed;
\* then venv's ensure_directories makes ENV_DIR/lib/pythonX.Y/site-packages and
\* ENV_DIR/bin, and raises when bin is a file.
EnsureDirectories ==
    /\ cpc = "ready"
    /\ creates < MaxCreates
    /\ pre' = [root |-> root, lib_files |-> lib_files, bin_files |-> bin_files,
               files |-> files]
    /\ LET clearing == bld.clear_cross \/ bld.clear_build
           kept == IF clearing THEN remove_others(root) ELSE root
       IN  /\ root' = [kept EXCEPT !["lib"] = "dir",
                                   !["bin"] = IF kept["bin"] = "file" THEN "file" ELSE "dir"]
           /\ lib_files' = IF clearing THEN {} ELSE lib_files
           /\ bin_files' = IF clearing THEN {} ELSE bin_files
           /\ files' = IF clearing
                       THEN [files EXCEPT !["crossenv.cfg"] = "absent",
                                          !["activate"] = "absent"]
                       ELSE files
           /\ cpc' = IF kept["bin"] = "file" THEN "raised in ensure_directories"
                     ELSE after("ensure_directories")
    /\ venvs' = <<>>
    /\ log' = <<"ensure_directories">>
    /\ UNCHANGED <<cli, call, bld, tmp, observed, creates>>
    /\ UNCHANGED not_create

\* create_configuration up to the body of its with-block (lines 279-291): the
\* platform is split in two at '-' (ValueError otherwise) and the configuration
\* is written to overwrite_file's temporary.
StageCrossenvCfg ==
    /\ cpc = "create_configuration"
    /\ IF Len(bld.host_platform) = 2
       THEN tmp' = "crossenv.cfg" /\ cpc' = "crossenv.cfg staged"
       ELSE tmp' = tmp /\ cpc' = "raised in create_configuration"
    /\ UNCHANGED <<cli, call, bld, root, lib_files, bin_files, files, observed, pre, venvs,
                   log, creates>>
    /\ UNCHANGED not_create

\* The with-block of line 290 ends.
PublishCrossenvCfg ==
    /\ cpc = "crossenv.cfg staged"
    /\ files' = overwrite_file(files, "crossenv.cfg")
    /\ tmp' = "none"
    /\ log' = Append(log, "create_configuration")
    /\ cpc' = after("create_configuration")
    /\ UNCHANGED <<cli, call, bld, root, lib_files, bin_files, observed, pre, venvs, creates>>
    /\ UNCHANGED not_create

\* make_build_python (lines 293-319).
MakeBuildPython ==
    /\ cpc = "make_build_python"
    /\ venvs' = Append(venvs, [env |-> "build", dir |-> env_dir \o <<"build">>,
                               clear |-> bld.clear_build])
    /\ root' = [root EXCEPT !["build"] = "dir"]
    /\ log' = Append(log, "make_build_python")
    /\ cpc' = after("make_build_python")
    /\ UNCHANGED <<cli, call, bld, lib_files, bin_files, files, tmp, observed, pre, creates>>
    /\ UNCHANGED not_create

\* make_cross_python, lines 326-348: the cross environment is created, which
\* writes its pyvenv.cfg, and every file of its bin but the activate scripts is
\* removed, the delegation script of an earlier run among them.
MakeCrossVenv ==
    /\ cpc = "make_cross_python"
    /\ venvs' = Append(venvs, [env |-> "cross", dir |-> cross_env_dir(bld),
                               clear |-> bld.clear_cross])
    /\ root' = IF cross_env_dir(bld) = env_dir \o <<"cross">>
               THEN [root EXCEPT !["cross"] = "dir"] ELSE root
    /\ files' = [files EXCEPT !["pyvenv.cfg"] = "whole", !["cross-python"] = "absent"]
    /\ cpc' = "alter pyvenv.cfg"
    /\ UNCHANGED <<cli, call, bld, lib_files, bin_files, tmp, observed, pre, log, creates>>
    /\ UNCHANGED not_create

\* Lines 351-356, the body of the with-block: the rewritten descriptor is
\* written to overwrite_file's temporary.
StagePyvenvCfg ==
    /\ cpc = "alter pyvenv.cfg"
    /\ tmp' = "pyvenv.cfg"
    /\ cpc' = "pyvenv.cfg staged"
    /\ UNCHANGED <<cli, call, bld, root, lib_files, bin_files, files, observed, pre, venvs,
                   log, creates>>
    /\ UNCHANGED not_create

\* The with-block of line 351 ends.
PublishPyvenvCfg ==
    /\ cpc = "pyvenv.cfg staged"
    /\ files' = overwrite_file(files, "pyvenv.cfg")
    /\ tmp' = "none"
    /\ cpc' = "write script"
    /\ UNCHANGED <<cli, call, bld, root, lib_files, bin_files, observed, pre, venvs, log,
                   creates>>
    /\ UNCHANGED not_create

\* Line 375: open(context.cross_env_exe, 'w').
OpenScript ==
    /\ cpc = "write script"
    /\ files' = open_w(files, "cross-python")
    /\ cpc' = "script open"
    /\ UNCHANGED <<cli, call, bld, root, lib_files, bin_files, tmp, observed, pre, venvs,
                   log, creates>>
    /\ UNCHANGED not_create

\* Lines 376-423: the writes, and the end of the with-block.
CloseScript ==
    /\ cpc = "script open"
    /\ files' = close_w(files, "cross-python")
    /\ cpc' = "install patches"
    /\ UNCHANGED <<cli, call, bld, root, lib_files, bin_files, tmp, observed, pre, venvs,
                   log, creates>>
    /\ UNCHANGED not_create

\* Lines 424-432: chmod, the python and python3 links, site.py and the host's
\* _sysconfigdata copied to ENV_DIR/lib.
InstallPatches ==
    /\ cpc = "install patches"
    /\ lib_files' = lib_files \cup {"site.py", "_sysconfigdata.py"}
    /\ log' = Append(log, "make_cross_python")
    /\ cpc' = after("make_cross_python")
    /\ UNCHANGED <<cli, call, bld, root, bin_files, files, tmp, observed, pre, venvs,
                   creates>>
    /\ UNCHANGED not_create

\* post_setup, lines 447-460: the cross- and build- aliases in ENV_DIR/bin.
PublishAliases ==
    /\ cpc = "post_setup"
    /\ bin_files' = bin_files \cup {"cross-python3", "build-python3"}
    /\ cpc' = "write activate"
    /\ UNCHANGED <<cli, call, bld, root, lib_files, files, tmp, observed, pre, venvs, log,
                   creates>>
    /\ UNCHANGED not_create

\* Line 464: open(activate, 'w').
OpenActivate ==
    /\ cpc = "write activate"
    /\ files' = open_w(files, "activate")
    /\ cpc' = "activate open"
    /\ UNCHANGED <<cli, call, bld, root, lib_files, bin_files, tmp, observed, pre, venvs,
                   log, creates>>
    /\ UNCHANGED not_create

\* Lines 465-468: the write and the end of the with-block; create() returns.
CloseActivate ==
    /\ cpc = "activate open"
    /\ files' = close_w(files, "activate")
    /\ log' = Append(log, "post_setup")
    /\ creates' = creates + 1
    /\ cpc' = after("post_setup")
    /\ UNCHANGED <<cli, call, bld, root, lib_files, bin_files, tmp, observed, pre, venvs>>
    /\ UNCHANGED not_create

\* Another process reads one of the published files at its final path.
Reader ==
    /\ cpc # "start"
    /\ \E f \in FileNames :
        /\ files[f] # "absent"
        /\ observed' = IF files[f] = "partial" THEN observed \cup {f} ELSE observed
    /\ UNCHANGED <<cpc, cli, call, bld, root, lib_files, bin_files, files, tmp, pre, venvs,
                   log, creates>>
    /\ UNCHANGED not_create

CNext ==
    \/ MainDriver
    \/ ApiConstruct
    \/ EnsureDirectories
    \/ StageCrossenvCfg
    \/ PublishCrossenvCfg
    \/ MakeBuildPython
    \/ MakeCrossVenv
    \/ StagePyvenvCfg
    \/ PublishPyvenvCfg
    \/ OpenScript
    \/ CloseScript
    \/ InstallPatches
    \/ PublishAliases
    \/ OpenActivate
    \/ CloseActivate
    \/ Reader

\* No create() is modelled.
CIdle ==
    /\ cpc = "idle"
    /\ cli = NoCli
    /\ call = NoKw
    /\ bld = NoSelf
    /\ root = NoRoot
    /\ lib_files = {}
    /\ bin_files = {}
    /\ files = NoFiles
    /\ tmp = "none"
    /\ observed = {}
    /\ pre = NoPre
    /\ venvs = <<>>
    /\ log = <<>>
    /\ creates = 0

\* ------------------------------------------------- make_cross_python

\* File names, in the pieces the code's tests tell apart.
n_activate == <<"activate">>
n_activate_csh == <<"activate", ".csh">>
n_Activate_ps1 == <<"Activate", ".ps1">>
n_argcomplete == <<"activate", "-global-python-argcomplete">>
n_gcc == <<"gcc">>
n_python == <<"python">>
n_python3 == <<"python", "3">>
n_python39 == <<"python", "3", ".9">>
BinNames ==
    {n_activate, n_activate_csh, n_Activate_ps1, n_argcomplete, n_gcc, n_python, n_python3,
     n_python39}
\* The names venv gives the interpreter beside context.python_exe, and the
\* activation scripts it installs.
VenvPythonNames == {n_python, n_python3, n_python39}
VenvActivationNames == {n_activate, n_activate_csh, n_Activate_ps1}
\* sys._base_executable's file name.
PythonExes == {n_python, n_python3, n_python39}

EmptyBin == [n \in BinNames |-> "absent"]

\* What the cross location's bin may hold before: tools of the sysroot a
\* cross_prefix names, and what an earlier create() left.
PriorBins ==
    {[n \in BinNames |->
        IF n = n_gcc /\ tools THEN "other"
        ELSE IF n = n_argcomplete /\ completion THEN "other"
        ELSE IF ~earlier THEN "absent"
        ELSE IF n = exe THEN "delegation script"
        ELSE IF n \in {n_python, n_python3} THEN "alias"
        ELSE IF n \in {n_activate, n_activate_csh} THEN "activation script"
        ELSE "absent"] :
     tools \in BOOLEAN, completion \in BOOLEAN, earlier \in BOOLEAN, exe \in PythonExes}

\* str.startswith
startswith(name, prefix) ==
    Len(name) >= Len(prefix) /\ SubSeq(name, 1, Len(prefix)) = prefix

\* Every entry survives the removal loop.
keeps_everything(name) == TRUE

\* Line 347: the entries the removal loop leaves alone.
keeps(name) == startswith(name, <<"activate">>)

\* A line of pyvenv.cfg is a sequence of words and runs of white space.
sp == <<" ">>
nl == <<"\n">>
IsSpace(tok) == tok \in {sp, nl}
\* str.split(): the words of a line.
split(line) == SelectSeq(line, LAMBDA tok : ~IsSpace(tok))
\* 'KEY = word word ...\n'
cfg_line(key, words) ==
    <<key, sp, <<"=">>>> \o
    [i \in 1..(2 * Len(words)) |-> IF i % 2 = 1 THEN sp ELSE words[i \div 2]] \o <<nl>>

\* The directory of the running interpreter, as venv writes it: one word, or
\* two when the path holds a blank.
PythonDirs == {<< <<"usr", "bin">> >>, << <<"my">>, <<"dir", "bin">> >>}
\* venv.EnvBuilder.create_configuration: home, include-system-site-packages,
\* version and, from Python 3.11 on, executable and command.
VenvDescriptors ==
    {<<cfg_line(<<"home">>, d),
       cfg_line(<<"include-system-site-packages">>, <<<<"false">>>>),
       cfg_line(<<"version">>, <<<<"3.9.0">>>>)>> \o
     (IF later
      THEN <<cfg_line(<<"executable">>, d),
             cfg_line(<<"command">>, d \o <<<<"-m">>, <<"venv">>, <<"--without-pip">>>>)>>
      ELSE <<>>) :
     d \in PythonDirs, later \in BOOLEAN}

\* The rewrite taking every KEY = line for the home line.
alter_line_any_key(line, base) ==
    IF Len(split(line)) >= 2 /\ split(line)[2] = <<"=">>
    THEN <<<<"home">>, sp, <<"=">>, sp, base, nl>>
    ELSE line

\* Lines 354-355: a line whose first two words are home and = becomes
\* 'home = <host_project_base>\n'.
alter_line(line, base) ==
    IF SubSeq(split(line), 1, 2) = <<<<"home">>, <<"=">>>>
    THEN <<<<"home">>, sp, <<"=">>, sp, base, nl>>
    ELSE line
\* Lines 351-356: the file, line by line.
alter_pyvenv_cfg(lines, base) == [i \in 1..Len(lines) |-> alter_line(lines[i], base)]

XStart ==
    /\ xpc = "venv"
    /\ xkw \in KwArgs
    /\ xself = CrossEnvBuilder(GoodInstallation, CompilerForCreate, xkw).self
    /\ xexe \in PythonExes
    /\ xbin \in PriorBins
    /\ xbin0 = EmptyBin
    /\ cfg = <<>>
    /\ cfg0 = <<>>

\* Lines 332-338: venv.EnvBuilder(clear=self.clear_cross, symlinks=True).create:
\* the location is emptied when clearing; the interpreter is linked as
\* python_exe and under the names of VenvPythonNames that do not exist; the
\* activation scripts and pyvenv.cfg are written.
VenvCreate ==
    /\ xpc = "venv"
    /\ LET cleared == IF xself.clear_cross THEN EmptyBin ELSE xbin
           made == [n \in BinNames |->
                      IF n = xexe THEN "interpreter"
                      ELSE IF n \in VenvPythonNames /\ cleared[n] = "absent" THEN "interpreter"
                      ELSE IF n \in VenvActivationNames THEN "activation script"
                      ELSE cleared[n]]
       IN  xbin' = made /\ xbin0' = made
    /\ cfg' \in VenvDescriptors
    /\ xpc' = "remove binaries"
    /\ UNCHANGED <<xkw, xself, xexe, cfg0>>
    /\ UNCHANGED not_cross

\* Lines 346-348.
RemoveBinaries ==
    /\ xpc = "remove binaries"
    /\ xbin' = [n \in BinNames |-> IF keeps(n) THEN xbin[n] ELSE "absent"]
    /\ xpc' = "alter pyvenv.cfg"
    /\ UNCHANGED <<xkw, xself, xexe, xbin0, cfg, cfg0>>
    /\ UNCHANGED not_cross

\* Lines 351-356.
AlterPyvenvCfg ==
    /\ xpc = "alter pyvenv.cfg"
    /\ cfg0' = cfg
    /\ cfg' = alter_pyvenv_cfg(cfg, xself.host_project_base)
    /\ xpc' = "write script"
    /\ UNCHANGED <<xkw, xself, xexe, xbin, xbin0>>
    /\ UNCHANGED not_cross

\* Lines 375-424: the delegation script at context.cross_env_exe.
WriteDelegationScript ==
    /\ xpc = "write script"
    /\ xbin' = [xbin EXCEPT ![xexe] = "delegation script"]
    /\ xpc' = "link aliases"
    /\ UNCHANGED <<xkw, xself, xexe, xbin0, cfg, cfg0>>
    /\ UNCHANGED not_cross

\* Lines 425-428: python and python3 linked to python_exe where nothing exists.
LinkAliases ==
    /\ xpc = "link aliases"
    /\ xbin' = [n \in BinNames |->
                  IF n \in {n_python, n_python3} /\ xbin[n] = "absent" THEN "alias"
                  ELSE xbin[n]]
    /\ xpc' = "done"
    /\ UNCHANGED <<xkw, xself, xexe, xbin0, cfg, cfg0>>
    /\ UNCHANGED not_cross

XNext ==
    \/ VenvCreate
    \/ RemoveBinaries
    \/ AlterPyvenvCfg
    \/ WriteDelegationScript
    \/ LinkAliases

\* No make_cross_python is modelled.
XIdle ==
    /\ xpc = "idle"
    /\ xkw = NoKw
    /\ xself = NoSelf
    /\ xexe = <<>>
    /\ xbin = EmptyBin
    /\ xbin0 = EmptyBin
    /\ cfg = <<>>
    /\ cfg0 = <<>>

\* ------------------------------------------------------- specifications

\* The construction of a builder.
BInit == BStart /\ SIdle /\ CIdle /\ XIdle
SpecBuilder == BInit /\ [][BNext]_vars

\* The delegation script, written and run.
SInit == SStart /\ BIdle /\ CIdle /\ XIdle
SpecScript == SInit /\ [][SNext]_vars

\* main() or a caller making a builder and calling create(), beside a reader.
CInit == CStart /\ BIdle /\ SIdle /\ XIdle
SpecCreate == CInit /\ [][CNext]_vars

\* make_cross_python on a cross location with prior content, up to the links.
XInit == XStart /\ BIdle /\ SIdle /\ CIdle
SpecCross == XInit /\ [][XNext]_vars

\* =========================================================== construction
\* Claims about CrossEnvBuilder.__init__, checked under SpecBuilder.

\* find_host_python has returned or raised.
HostActed == bpc # "find_host_python"
\* find_compiler_info has returned or raised.
CompilerActed == bpc \in {"raised in find_compiler_info", "flags", "constructed"}
\* The host path is a file and the search for _sysconfigdata*.py took place.
Searched == HostActed /\ inst.path = "file" /\ (inst.source_dir => inst.pybuilddir)
\* The number of files in the list the branch globbed: the build directory; or
\* lib/pythonX.Y and, when that holds none, its subdirectories.
Candidates ==
    IF inst.source_dir THEN inst.n_build
    ELSE IF inst.n_lib # 0 THEN inst.n_lib ELSE inst.n_sub
\* Exactly one configuration-data file was found and its VERSION is not the
\* running interpreter's.
OneFileOtherVersion ==
    Searched /\ Candidates = 1 /\ inst.has_version /\ inst.version # build_version

\* C1 as stated: with exactly one configuration-data file whose version differs
\* from the running interpreter's, construction fails with VersionMismatch naming
\* the host and the build version, whatever else is wrong with the installation;
\* and a builder is only constructed with the host version equal to the build's.
C1_MismatchWhateverElse ==
    /\ OneFileOtherVersion => err = RaiseVersionMismatch(inst.version, build_version)
    /\ bpc = "constructed" => self.host_version = build_version

\* C1 amended: the version is compared last (line 202), after the loaded file's
\* CC was read and the build makefile was found.  With exactly one file of
\* another version: VersionMismatch naming both versions when the file records
\* CC and the makefile exists; "Cannot find Makefile" when the makefile is
\* missing; KeyError when CC is missing.  A builder is only constructed with the
\* host version equal to the running interpreter's.
C1_MismatchAfterMakefile ==
    /\ OneFileOtherVersion /\ inst.cc /\ inst.makefile
        => /\ bpc = "raised in find_host_python"
           /\ err = RaiseVersionMismatch(inst.version, build_version)
    /\ OneFileOtherVersion /\ inst.cc /\ ~inst.makefile
        => /\ bpc = "raised in find_host_python"
           /\ err = Raise("MalformedInstallation")
    /\ OneFileOtherVersion /\ ~inst.cc
        => /\ bpc = "raised in find_host_python"
           /\ err = Raise("KeyError")
    /\ bpc = "constructed"
        => /\ self.host_version = build_version
           /\ inst.has_version /\ inst.version = build_version

\* C1 witness: one file of another version, makefile present, VersionMismatch raised.
C1_Witness ==
    /\ OneFileOtherVersion /\ inst.cc /\ inst.makefile
    /\ err = RaiseVersionMismatch(other_version, build_version)

\* C2 as stated: when the compiler's --version query exits nonzero or cannot be
\* spawned, construction fails with CompilerUnavailable (the RuntimeError "Cannot
\* run cross-compiler") and no other error, and never completes.
C2_CompilerUnavailable ==
    (CompilerActed /\ ccw.version_query # "ok")
        => /\ bpc = "raised in find_compiler_info"
           /\ err = Raise("CompilerUnavailable")

\* C3 as stated: with the --version query succeeding, a failing -print-sysroot
\* query raises nothing, construction goes on and the sysroot is absent; a
\* succeeding one records its trimmed output.
C3_SysrootBestEffort ==
    (CompilerActed /\ ccw.version_query = "ok")
        => /\ ccw.sysroot_query # "ok"
               => /\ bpc \in {"flags", "constructed"}
                  /\ err = NoErr
                  /\ self.host_sysroot = None
           /\ ccw.sysroot_query = "ok"
               => /\ bpc \in {"flags", "constructed"}
                  /\ err = NoErr
                  /\ self.host_sysroot = Some(strip(ccw.sysroot_out))

\* The exceptions find_host_python can raise once it has loaded the one file.
AfterLoad == {Raise("KeyError"), Raise("MalformedInstallation"),
              RaiseVersionMismatch(other_version, build_version)}

\* C9 as stated: no matching file in the search locations: ConfigDataNotFound;
\* two or more: AmbiguousInstallation; only with exactly one is the file loaded;
\* in the source-checkout and in the installed-tree branch alike.
C9_CandidateCounting ==
    Searched
        => /\ Candidates = 0 => err = Raise("ConfigDataNotFound")
           /\ Candidates >= 2 => err = Raise("AmbiguousInstallation")
           /\ (bpc # "raised in find_host_python" \/ err \in AfterLoad) => Candidates = 1

\* Another lib/python* directory of the prefix holds a configuration-data file.
ElsewhereInPrefix == ~inst.source_dir /\ (inst.any1 \/ inst.any2)

\* C9 amended: the count is of the list the branch globbed (installed tree:
\* lib/pythonX.Y, its subdirectories only when lib/pythonX.Y itself holds none).
\* None: ConfigDataNotFound, unless in the installed-tree branch another
\* lib/python* directory of the prefix holds such a file: then VersionMismatch is
\* raised, naming the characters after the sixth of that file's directory name.
\* Two or more: AmbiguousInstallation.  Only with exactly one is the file loaded.
C9_CandidateCountingElsewhere ==
    Searched
        => /\ (Candidates = 0 /\ ~ElsewhereInPrefix) => err = Raise("ConfigDataNotFound")
           /\ (Candidates = 0 /\ ElsewhereInPrefix)
               => err = RaiseVersionMismatch(
                            IF inst.any1 THEN <<"3", ".", "8">> ELSE <<"r", "m">>,
                            build_version)
           /\ Candidates >= 2 => err = Raise("AmbiguousInstallation")
           /\ Candidates # 1 => bpc = "raised in find_host_python"
           /\ (bpc # "raised in find_host_python" \/ err \in AfterLoad) => Candidates = 1

\* C9 witness: an installed tree with nothing under lib/pythonX.Y, a file under
\* another lib/python*, and the version mismatch raised for it.
C9_Witness ==
    /\ Searched /\ Candidates = 0 /\ inst.any1
    /\ err = RaiseVersionMismatch(<<"3", ".", "8">>, build_version)

\* ================================================================== script
\* Claims about the delegation script, checked under SpecScript.

\* The assignment section of the current invocation has run.
ExtraRan == \E i \in 1..Len(ran) : ran[i].sec = "extra"

\* No other entry of the list names the variable of entry i.
NamedOnce(i) == \A j \in 1..Len(gen.xvars) : gen.xvars[j].name = gen.xvars[i].name => j = i

\* C6 as stated, read for the variables the list names once: after the assignment section has run, a variable named by a
\* '?=' entry keeps its prior value when that was non-empty and has the entry's
\* value when it was empty or unset, and a variable named by an '=' entry has
\* the entry's value whatever it was before.
C6_AssignmentSemantics ==
    ExtraRan =>
        \A i \in 1..Len(gen.xvars) :
            LET x == gen.xvars[i]
            IN  NamedOnce(i) =>
                /\ (x.assign = "?=" /\ ~IsEmpty(before, x.name))
                    => sh_env[x.name] = before[x.name]
                /\ (x.assign = "?=" /\ IsEmpty(before, x.name))
                    => sh_env[x.name] = Some(x.val)
                /\ x.assign = "=" => sh_env[x.name] = Some(x.val)

\* C7 as stated: a run of the script in the environment an earlier run of it
\* exported hands the interpreter the same environment as that earlier run; the
\* module search path among them, which so holds the staging-area and
\* standard-library prefix once, before the pre-existing value.
C7_InjectionIdempotent ==
    \A i \in 1..Len(results) : results[i] = results[1]

\* The steps of the script in the order the claim gives them.
StepRank(sec) ==
    CASE sec = "head" -> 0
      [] sec = "identity" -> 1
      [] sec = "path" -> 2
      [] sec = "sysroot" -> 3
      [] sec = "extra" -> 4
      [] sec = "exec" -> 5

\* The positions in this invocation's run at which NAME was exported by one of
\* the script's own steps (not by a caller's assignment).
ExportsOf(name) ==
    {i \in 1..Len(ran) : ran[i].name = name /\ ran[i].sec \in {"identity", "path", "sysroot"}}
\* NAME was exported exactly once, and before every export of each of the others.
OnceBefore(name, others) ==
    /\ Cardinality(ExportsOf(name)) = 1
    /\ \A o \in others : \A i \in ExportsOf(name), j \in ExportsOf(o) : i < j

\* C11: in every invocation the shell performs the script's steps in the order
\* marker, host identity (project base, platform, configuration-data module),
\* search path, sysroot directories (only with a sysroot), the caller's
\* assignments (one statement per entry, in the list's order, duplicates kept),
\* and last the exec of the build interpreter, whose argv is the cross bin path
\* joined with the invoked base name, followed by the original arguments.
C11_ScriptStepOrder ==
    /\ \A i, j \in 1..Len(ran) : i < j => StepRank(ran[i].sec) <= StepRank(ran[j].sec)
    /\ (\E i \in 1..Len(ran) : ran[i].sec = "sysroot") => Truthy(gen.self.host_sysroot)
    /\ spc = "python" =>
        /\ OnceBefore("PYTHON_CROSSENV", {"_PYTHON_PROJECT_BASE", "_PYTHON_HOST_PLATFORM",
                                          "_PYTHON_SYSCONFIGDATA_NAME"})
        /\ \A n \in {"_PYTHON_PROJECT_BASE", "_PYTHON_HOST_PLATFORM",
                     "_PYTHON_SYSCONFIGDATA_NAME"} : OnceBefore(n, {"PYTHONPATH"})
        /\ OnceBefore("PYTHONPATH", {"LIBRARY_PATH", "CPATH"})
        /\ LET extra == section(ran, "extra")
           IN  /\ Len(extra) = Len(gen.xvars)
               /\ \A i \in 1..Len(extra) :
                    /\ extra[i].name = gen.xvars[i].name
                    /\ extra[i].text = gen.xvars[i].val
                    /\ extra[i].op = "guarded" <=> gen.xvars[i].assign = "?="
        /\ ran[Len(ran)].sec = "exec"
        /\ Cardinality({i \in 1..Len(ran) : ran[i].sec = "exec"}) = 1
        /\ execd.exe = build_env_exe
        /\ execd.argv = <<cross_bin_path \o <<inv.zero[Len(inv.zero)]>> >> \o inv.args

\* A nested invocation by name, with arguments, of a script holding both
\* sysroot exports and two assignments to one variable, has delegated.
C11_Witness ==
    /\ spc = "python"
    /\ runs = 2
    /\ inv.zero = <<"python">>
    /\ Len(inv.args) = 2
    /\ Len(section(ran, "sysroot")) = 2
    /\ Len(gen.xvars) = 2
    /\ gen.xvars[1].name = gen.xvars[2].name
    /\ gen.xvars[1].val # gen.xvars[2].val

\* ------------------------------------------------------ claims on create()

\* ensure_directories has run in the create() under way.
EnsuredDirectories == cpc \in {"create_configuration", "raised in ensure_directories"}
\* The entries of ENV_DIR other than cross and build.
Others == RootNames \ {"cross", "build"}
\* The constructor was given a clear scope.
Clearing == call.clear # "none"

\* C4 as stated: whatever the clear scope and the prior content of the root,
\* after ensure_directories every entry of the root other than cross and build
\* that was there is still there, with the content of lib and bin and the
\* files beside them, and a repeated create() does not fail in it.
C4_OnlyNamedSubareasRemoved ==
    EnsuredDirectories =>
        /\ \A n \in Others : pre.root[n] # "absent" => root[n] # "absent"
        /\ pre.lib_files \subseteq lib_files
        /\ pre.bin_files \subseteq bin_files
        /\ \A f \in FileNames : pre.files[f] # "absent" => files[f] # "absent"
        /\ creates >= 1 => cpc # "raised in ensure_directories"

\* C4 amended: ensure_directories never removes cross or build or what is in
\* them; without a clear scope it removes nothing at all; with any clear scope
\* it removes every other entry of the root, lib and bin with their content
\* and unrelated files included, and makes lib and bin anew; a create() after
\* a completed one does not fail in it.
C4_EverythingButNamedSubareasRemoved ==
    EnsuredDirectories =>
        /\ root["cross"] = pre.root["cross"] /\ root["build"] = pre.root["build"]
        /\ files["pyvenv.cfg"] = pre.files["pyvenv.cfg"]
        /\ files["cross-python"] = pre.files["cross-python"]
        /\ ~Clearing =>
            /\ \A n \in Others : pre.root[n] # "absent" => root[n] = pre.root[n]
            /\ lib_files = pre.lib_files /\ bin_files = pre.bin_files
            /\ files = pre.files
        /\ Clearing =>
            /\ root["junk"] = "absent"
            /\ root["lib"] = "dir" /\ root["bin"] = "dir"
            /\ lib_files = {} /\ bin_files = {}
            /\ files["crossenv.cfg"] = "absent" /\ files["activate"] = "absent"
            /\ cpc = "create_configuration"
        /\ root["lib"] = "dir"
        /\ creates >= 1 => cpc = "create_configuration"

\* A create() with clear='default' has just removed an unrelated file, the
\* content of lib and crossenv.cfg, beside a cross and a build that stay.
C4_Witness ==
    /\ cpc = "create_configuration"
    /\ call.clear = "default"
    /\ pre.root["junk"] = "file" /\ root["junk"] = "absent"
    /\ "old.py" \in pre.lib_files /\ lib_files = {}
    /\ pre.files["crossenv.cfg"] = "whole" /\ files["crossenv.cfg"] = "absent"
    /\ root["cross"] = "dir" /\ root["build"] = "dir"

\* C5: the build environment is created with clearing exactly when clear is
\* 'default', 'build' or 'both', whatever cross_prefix is; the cross
\* environment exactly when clear is 'cross' or 'both', or clear is 'default'
\* and the constructor was given no (non-empty) cross_prefix.
C5_ClearScopes ==
    \A i \in 1..Len(venvs) :
        /\ venvs[i].env = "build" =>
            (venvs[i].clear <=> call.clear \in {"default", "build", "both"})
        /\ venvs[i].env = "cross" =>
            (venvs[i].clear <=>
                \/ call.clear \in {"cross", "both"}
                \/ call.clear = "default" /\ ~Truthy(call.cross_prefix))

\* Both environments are made, clear is 'default' and a cross_prefix is given:
\* build is cleared, cross is not.
C5_Witness ==
    /\ Len(venvs) = 2
    /\ call.clear = "default"
    /\ Truthy(call.cross_prefix)
    /\ venvs[1].env = "build" /\ venvs[1].clear
    /\ venvs[2].env = "cross" /\ ~venvs[2].clear
    /\ venvs[2].dir = sysroot_prefix

\* C8 as stated: no process reading one of the files create() publishes, at
\* its final path and while create() runs, sees it partially written.
C8_AtomicPublication == observed = {}

\* C10 as stated: with --cross-prefix P on the command line the cross
\* environment of every ENV_DIR is made at P, and with plain --clear it is
\* made without clearing.
C10_DriverCrossPrefix ==
    (cli.via = "main" /\ Truthy(cli.cross_prefix)) =>
        \A i \in 1..Len(venvs) :
            venvs[i].env = "cross" =>
                /\ venvs[i].dir = cli.cross_prefix.val
                /\ cli.clear = "default" => ~venvs[i].clear

\* Step a is in the log of the create() under way, and step b before it.
LoggedAfter(a, b) ==
    \A i \in 1..Len(log) : log[i] = a => \E j \in 1..(i - 1) : log[j] = b

\* C12 as stated: a create() runs Directory Manager, Build Assembler, Cross
\* Assembler, Configuration Writer, Path Alias Publisher in this order:
\* crossenv.cfg is written only after both environments are assembled, and
\* before the aliases are published.
C12_ConfigurationAfterEnvironments ==
    /\ LoggedAfter("make_build_python", "ensure_directories")
    /\ LoggedAfter("make_cross_python", "make_build_python")
    /\ LoggedAfter("create_configuration", "make_cross_python")
    /\ LoggedAfter("post_setup", "create_configuration")

\* C12 amended: a create() runs Directory Manager, Configuration Writer, Build
\* Assembler, Cross Assembler, Path Alias Publisher in this order: crossenv.cfg
\* is written before either environment is assembled, and the aliases are
\* published after both.
C12_ConfigurationBeforeEnvironments ==
    /\ LoggedAfter("create_configuration", "ensure_directories")
    /\ LoggedAfter("make_build_python", "create_configuration")
    /\ LoggedAfter("make_cross_python", "make_build_python")
    /\ LoggedAfter("post_setup", "make_cross_python")
    /\ cpc = "crossenv.cfg staged" => venvs = <<>>
    /\ \A i, j \in 1..Len(log) : log[i] = log[j] => i = j

\* A second create() on the builder has run all five steps.
C12_Witness ==
    /\ Len(log) = 5
    /\ Len(venvs) = 2
    /\ files["crossenv.cfg"] = "whole"
    /\ creates = 2

\* ---------------------------------------------- claims on make_cross_python

\* C13 as stated: whatever the clear scope, the cross location and its prior
\* content, after make_cross_python every entry of the cross environment's bin
\* is an activation script, the delegation script or an alias link to it, and
\* no interpreter or other file that was there right after the environment was
\* created remains.
C13_SoleEntryPoint ==
    xpc = "done" =>
        /\ \A n \in BinNames :
            xbin[n] \in {"absent", "activation script", "delegation script", "alias"}
        /\ \A n \in BinNames :
            xbin0[n] \in {"interpreter", "other"} => xbin[n] # xbin0[n]
        /\ xbin[xexe] = "delegation script"

\* C13 amended: after make_cross_python every entry of the cross environment's
\* bin is an entry whose name begins with 'activate', as it was right after
\* the environment was created, or the delegation script under the running
\* interpreter's name, or a python or python3 link to it; every entry whose
\* name does not begin with 'activate' that was there right after the
\* environment was created is gone or replaced by one of those.
C13_OnlyActivateNamesSurvive ==
    xpc = "done" =>
        /\ \A n \in BinNames :
            \/ xbin[n] = "absent"
            \/ startswith(n, <<"activate">>) /\ xbin[n] = xbin0[n]
            \/ n = xexe /\ xbin[n] = "delegation script"
            \/ n \in {n_python, n_python3} /\ xbin[n] = "alias"
        /\ \A n \in BinNames :
            (~startswith(n, <<"activate">>) /\ xbin0[n] # "absent") =>
                xbin[n] \in {"absent", "delegation script", "alias"}
        /\ \A n \in BinNames : startswith(n, <<"activate">>) => xbin[n] = xbin0[n]
        /\ xbin[xexe] = "delegation script"

\* make_cross_python is done on a cross_prefix not cleared, whose bin held a
\* tool and a program named activate-...: the tool and the interpreter's links
\* are gone, the program is still there.
C13_Witness ==
    /\ xpc = "done"
    /\ Truthy(xkw.cross_prefix) /\ xkw.clear = "default"
    /\ xbin0[n_gcc] = "other" /\ xbin[n_gcc] = "absent"
    /\ xbin0[n_python39] = "interpreter" /\ xbin[n_python39] = "absent"
    /\ xbin0[n_argcomplete] = "other" /\ xbin[n_argcomplete] = "other"
    /\ xbin[n_activate] = "activation script"
    /\ xbin[n_python3] = "delegation script" /\ xbin[n_python] = "alias"

\* The descriptor has been rewritten.
Altered == xpc \in {"write script", "link aliases", "done"}
\* The key of a line: its first word.
IsHomeLine(line) == split(line) # <<>> /\ split(line)[1] = <<"home">>

\* C14: the rewritten pyvenv.cfg has the lines of the original, as many and in
\* the same order; a line whose key is not home is the original line; the home
\* line's value is the directory of the host executable, not the build
\* interpreter's.
C14_OnlyHomeRewritten ==
    Altered =>
        /\ Len(cfg) = Len(cfg0)
        /\ \A i \in 1..Len(cfg0) :
            /\ ~IsHomeLine(cfg0[i]) => cfg[i] = cfg0[i]
            /\ IsHomeLine(cfg0[i]) =>
                /\ split(cfg[i]) = <<<<"home">>, <<"=">>, dirname(host_path)>>
                /\ cfg[i] # cfg0[i]
        /\ \E i \in 1..Len(cfg0) : IsHomeLine(cfg0[i])

\* A five-line descriptor whose home and executable hold a path with a blank
\* has been rewritten.
C14_Witness ==
    /\ Altered
    /\ Len(cfg0) = 5
    /\ Len(split(cfg0[1])) = 4
    /\ IsHomeLine(cfg0[1])
    /\ cfg[1] # cfg0[1]
    /\ cfg[4] = cfg0[4]

====
